---------------------------- MODULE Spec2Model ----------------------------
(***************************************************************************)
(* Model of src/utils/num.ts of starknet.js: the numeric conversion        *)
(* helpers (toBigInt, toHex, toStorageKey, hexToDecimalString, cleanHex,   *)
(* assertInRange, getDecimalString, hexToBytes, addPercent,                *)
(* stringToSha256ToArrayBuff4, isBigNumberish).                            *)
(*                                                                         *)
(* A JavaScript string is a sequence of one-character strings.  A bigint   *)
(* is a sign and a magnitude, the magnitude a big-endian sequence of       *)
(* base-16 digits without leading zero (<<>> is zero), so that values of   *)
(* 256 bits and more are computed exactly.  A machine integer (a JS        *)
(* number holding an integer) is an Int.  A call that throws yields a      *)
(* result with ok = FALSE and the kind of the error.                       *)
(***************************************************************************)
EXTENDS Integers, Sequences, FiniteSets, TLC

VARIABLES op, arg, ret, prev

vars == <<op, arg, ret, prev>>

(***************************************************************************)
(* Bounds of the model.                                                    *)
(***************************************************************************)
MaxLen == 3
MaxHexDigits == 4
MaxDecDigits == 3
MaxNum == 17
MaxPct == 3
MaxRange == 2

\* F(x) with x evaluated once, before the call, as JavaScript evaluates an
\* argument or the initialiser of a const
Strict(x, F(_)) == CHOOSE r \in {F(v) : v \in {x}} : TRUE

(***************************************************************************)
(* Characters.                                                             *)
(***************************************************************************)
HexLower == <<"0","1","2","3","4","5","6","7","8","9","a","b","c","d","e","f">>
UpperCase == <<"A","B","C","D","E","F","G","H","I","J","K","L","M",
               "N","O","P","Q","R","S","T","U","V","W","X","Y","Z">>
LowerCase == <<"a","b","c","d","e","f","g","h","i","j","k","l","m",
               "n","o","p","q","r","s","t","u","v","w","x","y","z">>

LowerOf == [c \in {UpperCase[i] : i \in 1..26} |->
              LowerCase[CHOOSE i \in 1..26 : UpperCase[i] = c]]

\* String.prototype.toLowerCase, one character
toLowerChar(c) == IF c \in DOMAIN LowerOf THEN LowerOf[c] ELSE c

\* String.prototype.toLowerCase
toLowerCase(s) == [i \in 1..Len(s) |-> toLowerChar(s[i])]

DecChars == {HexLower[i] : i \in 1..10}

HexChars == {HexLower[i] : i \in 1..16} \cup {"A", "B", "C", "D", "E", "F"}

ValueOf == [c \in HexChars |-> (CHOOSE i \in 1..16 : HexLower[i] = toLowerChar(c)) - 1]

\* the character class \d of a JS regular expression without the u flag
IsDecChar(c) == c \in DecChars

\* the character class [0-9a-f] under the i flag
IsHexChar(c) == c \in HexChars

\* the value of a digit in radix 16 (and so in radix 10, 8 and 2)
DigitValue(c) == ValueOf[c]

\* white space and line terminators that StringToBigInt trims
IsWhiteSpace(c) == c \in {" ", "\t", "\n", "\r"}

(***************************************************************************)
(* Arbitrary-precision integers: magnitudes.                               *)
(***************************************************************************)
RECURSIVE StripZerosFrom(_, _)
StripZerosFrom(ds, i) ==
  IF i > Len(ds) THEN <<>>
  ELSE IF ds[i] = 0 THEN StripZerosFrom(ds, i + 1)
  ELSE SubSeq(ds, i, Len(ds))

StripZeros(ds) == StripZerosFrom(ds, 1)

RECURSIVE NatToMagAcc(_, _)
NatToMagAcc(n, acc) ==
  IF n = 0 THEN acc ELSE NatToMagAcc(n \div 16, <<n % 16>> \o acc)

NatToMag(n) == NatToMagAcc(n, <<>>)

\* m * k + carry, the digits of m taken from the right
RECURSIVE MagMulAddAcc(_, _, _, _, _)
MagMulAddAcc(m, i, k, carry, acc) ==
  IF i = 0 THEN NatToMag(carry) \o acc
  ELSE LET t == m[i] * k + carry
       IN  MagMulAddAcc(m, i - 1, k, t \div 16, <<t % 16>> \o acc)

MagMulAdd(m, k, a) == StripZeros(MagMulAddAcc(m, Len(m), k, a, <<>>))

\* quotient and remainder of m by a small divisor, long division from the left
RECURSIVE MagDivModAcc(_, _, _, _, _)
MagDivModAcc(m, i, d, rem, q) ==
  IF i > Len(m) THEN [q |-> StripZeros(q), r |-> rem]
  ELSE LET t == rem * 16 + m[i]
       IN  MagDivModAcc(m, i + 1, d, t % d, Append(q, t \div d))

MagDivMod(m, d) == MagDivModAcc(m, 1, d, 0, <<>>)

\* -1, 0, 1 as a < b, a = b, a > b
RECURSIVE MagCmpFrom(_, _, _)
MagCmpFrom(a, b, i) ==
  IF i > Len(a) THEN 0
  ELSE IF a[i] < b[i] THEN -1
  ELSE IF a[i] > b[i] THEN 1
  ELSE MagCmpFrom(a, b, i + 1)

MagCmp(a, b) ==
  IF Len(a) < Len(b) THEN -1
  ELSE IF Len(a) > Len(b) THEN 1
  ELSE MagCmpFrom(a, b, 1)

\* the digit of m that is k places from the right (0 past its left end)
DigitFromRight(m, k) == IF k < Len(m) THEN m[Len(m) - k] ELSE 0

RECURSIVE MagAddAcc(_, _, _, _, _)
MagAddAcc(a, b, k, carry, acc) ==
  IF k >= Len(a) /\ k >= Len(b)
  THEN (IF carry = 0 THEN acc ELSE <<carry>> \o acc)
  ELSE LET t == DigitFromRight(a, k) + DigitFromRight(b, k) + carry
       IN  IF t < 16
           THEN MagAddAcc(a, b, k + 1, 0, <<t>> \o acc)
           ELSE MagAddAcc(a, b, k + 1, 1, <<t - 16>> \o acc)

MagAdd(a, b) == StripZeros(MagAddAcc(a, b, 0, 0, <<>>))

\* a - b for a >= b
RECURSIVE MagSubAcc(_, _, _, _, _)
MagSubAcc(a, b, k, borrow, acc) ==
  IF k >= Len(a) THEN acc
  ELSE LET t == DigitFromRight(a, k) - DigitFromRight(b, k) - borrow
       IN  IF t < 0
           THEN MagSubAcc(a, b, k + 1, 1, <<t + 16>> \o acc)
           ELSE MagSubAcc(a, b, k + 1, 0, <<t>> \o acc)

MagSub(a, b) == StripZeros(MagSubAcc(a, b, 0, 0, <<>>))

RECURSIVE MagMulAcc(_, _, _, _)
MagMulAcc(a, b, i, acc) ==
  IF i > Len(b) THEN acc
  ELSE MagMulAcc(a, b, i + 1, MagAdd(MagMulAdd(acc, 16, 0), MagMulAdd(a, b[i], 0)))

MagMul(a, b) == MagMulAcc(a, b, 1, <<>>)

(***************************************************************************)
(* Arbitrary-precision integers: signed values and the bigint operators.   *)
(***************************************************************************)
MkBig(neg, mag) == [neg |-> neg /\ mag # <<>>, mag |-> mag]

BigZero == MkBig(FALSE, <<>>)

\* BigInt(n) for a machine integer n
BigFromNumber(n) == MkBig(n < 0, NatToMag(IF n < 0 THEN -n ELSE n))

\* a + b
BigAdd(a, b) ==
  IF a.neg = b.neg THEN MkBig(a.neg, MagAdd(a.mag, b.mag))
  ELSE IF MagCmp(a.mag, b.mag) >= 0 THEN MkBig(a.neg, MagSub(a.mag, b.mag))
  ELSE MkBig(b.neg, MagSub(b.mag, a.mag))

\* a * b
BigMul(a, b) == MkBig(a.neg # b.neg, MagMul(a.mag, b.mag))

\* a / d for a small positive divisor d: the quotient is truncated toward zero
BigDiv(a, d) == MkBig(a.neg, MagDivMod(a.mag, d).q)

\* a >= b
BigGeq(a, b) ==
  IF a.neg # b.neg THEN b.neg
  ELSE IF a.neg THEN MagCmp(a.mag, b.mag) <= 0
  ELSE MagCmp(a.mag, b.mag) >= 0

\* a <= b
BigLeq(a, b) == BigGeq(b, a)

\* the decimal digits of a magnitude, produced from the right
RECURSIVE MagToDecStep(_, _)
MagToDecStep(dm, acc) ==
  IF dm.q = <<>> THEN <<HexLower[dm.r + 1]>> \o acc
  ELSE MagToDecStep(MagDivMod(dm.q, 10), <<HexLower[dm.r + 1]>> \o acc)

MagToDecAcc(m, acc) == MagToDecStep(MagDivMod(m, 10), acc)

\* BigInt.prototype.toString(16) and toString(10) of a magnitude
MagToString(m, radix) ==
  IF m = <<>> THEN <<"0">>
  ELSE IF radix = 16 THEN [i \in 1..Len(m) |-> HexLower[m[i] + 1]]
  ELSE MagToDecAcc(m, <<>>)

\* BigInt.prototype.toString(radix), radix 16 or 10
BigToString(b, radix) ==
  (IF b.neg THEN <<"-">> ELSE <<>>) \o MagToString(b.mag, radix)

(***************************************************************************)
(* Results of a call: a returned value, or a thrown error.  The kinds of   *)
(* error are the spec's: ParseError is the SyntaxError BigInt throws,      *)
(* FormatError the Error of getDecimalString and hexToBytes, RangeError    *)
(* the Error of the failed assertion of assertInRange.                     *)
(***************************************************************************)
Ok(v) == [ok |-> TRUE, val |-> v, err |-> "none", msg |-> <<>>]

Throw(kind, message) == [ok |-> FALSE, val |-> <<>>, err |-> kind, msg |-> message]

(***************************************************************************)
(* BigInt(string): StringToBigInt of ECMAScript.                           *)
(***************************************************************************)
RECURSIVE TrimLeft(_)
TrimLeft(s) ==
  IF s # <<>> /\ IsWhiteSpace(Head(s)) THEN TrimLeft(Tail(s)) ELSE s

RECURSIVE TrimRight(_)
TrimRight(s) ==
  IF s # <<>> /\ IsWhiteSpace(s[Len(s)]) THEN TrimRight(SubSeq(s, 1, Len(s) - 1)) ELSE s

Trim(s) == TrimRight(TrimLeft(s))

\* the digits of s from position i on, read in the radix
RECURSIVE ParseDigitsAcc(_, _, _, _)
ParseDigitsAcc(s, i, radix, acc) ==
  IF i > Len(s) THEN acc
  ELSE ParseDigitsAcc(s, i + 1, radix, MagMulAdd(acc, radix, DigitValue(s[i])))

\* in radix 16 the digits are those of the magnitude
ParseDigits(s, i, radix) ==
  IF radix = 16
  THEN StripZeros([k \in 1..(Len(s) - i + 1) |-> DigitValue(s[i + k - 1])])
  ELSE ParseDigitsAcc(s, i, radix, <<>>)

\* s has a digit at position i, and only digits of the radix from there on
AllDigitsFrom(s, i, radix) ==
  /\ i <= Len(s)
  /\ \A k \in i..Len(s) : IsHexChar(s[k]) /\ DigitValue(s[k]) < radix

\* the radix that a 0x, 0o or 0b prefix names, 0 when s has no such prefix
PrefixRadix(s) ==
  IF Len(s) >= 2 /\ s[1] = "0"
  THEN CASE toLowerChar(s[2]) = "x" -> 16
         [] toLowerChar(s[2]) = "o" -> 8
         [] toLowerChar(s[2]) = "b" -> 2
         [] OTHER -> 0
  ELSE 0

StringToBigIntTrimmed(s) ==
  LET radix == PrefixRadix(s)
      signed == s # <<>> /\ s[1] \in {"+", "-"}
      first == IF signed THEN 2 ELSE 1
  IN  IF s = <<>> THEN Ok(BigZero)
      ELSE IF radix # 0
      THEN IF AllDigitsFrom(s, 3, radix)
           THEN Ok(MkBig(FALSE, ParseDigits(s, 3, radix)))
           ELSE Throw("ParseError", <<>>)
      ELSE IF AllDigitsFrom(s, first, 10)
           THEN Ok(MkBig(signed /\ s[1] = "-", ParseDigits(s, first, 10)))
           ELSE Throw("ParseError", <<>>)

StringToBigInt(str) == Strict(Trim(str), StringToBigIntTrimmed)

(***************************************************************************)
(* BigNumberish: number | bigint | string.                                 *)
(***************************************************************************)
Num(n) == [tag |-> "number", v |-> n]
Big(b) == [tag |-> "bigint", v |-> b]
Str(s) == [tag |-> "string", v |-> s]
Bool(b) == [tag |-> "boolean", v |-> b]

\* BigInt(value)
BigInt(value) ==
  CASE value.tag = "number" -> Ok(BigFromNumber(value.v))
    [] value.tag = "bigint" -> Ok(value.v)
    [] value.tag = "string" -> StringToBigInt(value.v)

(***************************************************************************)
(* utils/encode: removeHexPrefix, addHexPrefix, buf2hex.                   *)
(***************************************************************************)
\* hex.replace(/^0x/i, '')
removeHexPrefix(hex) ==
  Strict(hex, LAMBDA h :
    IF Len(h) >= 2 /\ h[1] = "0" /\ toLowerChar(h[2]) = "x"
    THEN SubSeq(h, 3, Len(h))
    ELSE h)

\* `0x${removeHexPrefix(hex)}`
addHexPrefix(hex) == <<"0", "x">> \o removeHexPrefix(hex)

\* two lowercase hex digits per byte
RECURSIVE buf2hexAcc(_, _, _)
buf2hexAcc(buffer, i, acc) ==
  IF i > Len(buffer) THEN acc
  ELSE buf2hexAcc(buffer, i + 1,
         acc \o <<HexLower[(buffer[i] \div 16) + 1], HexLower[(buffer[i] % 16) + 1]>>)

buf2hex(buffer) == buf2hexAcc(buffer, 1, <<>>)

(***************************************************************************)
(* utils/num.                                                              *)
(***************************************************************************)
\* /^0x[0-9a-f]*$/i.test(hex)
isHex(hex) ==
  /\ Len(hex) >= 2
  /\ hex[1] = "0"
  /\ toLowerChar(hex[2]) = "x"
  /\ \A k \in 3..Len(hex) : IsHexChar(hex[k])

toBigInt(value) == BigInt(value)

PadWidth == 64

\* String.prototype.padStart(width, '0')
padStart(str, width) ==
  Strict(str, LAMBDA s :
    IF Len(s) >= width THEN s ELSE [i \in 1..(width - Len(s)) |-> "0"] \o s)

toHex(value) ==
  Strict(toBigInt(value), LAMBDA b :
    IF b.ok THEN Ok(addHexPrefix(BigToString(b.val, 16))) ELSE b)

\* toStorageKey without its padStart
toStorageKeyUnpadded(number) ==
  Strict(toBigInt(number), LAMBDA b :
    IF b.ok THEN Ok(addHexPrefix(BigToString(b.val, 16))) ELSE b)

toStorageKey(number) ==
  Strict(toBigInt(number), LAMBDA b :
    IF b.ok THEN Ok(addHexPrefix(padStart(BigToString(b.val, 16), PadWidth))) ELSE b)

\* hexToDecimalString with toString(16) for toString(10)
hexToDecimalStringRadix16(hex) ==
  Strict(BigInt(Str(addHexPrefix(hex))), LAMBDA b :
    IF b.ok THEN Ok(BigToString(b.val, 16)) ELSE b)

hexToDecimalString(hex) ==
  Strict(BigInt(Str(addHexPrefix(hex))), LAMBDA b :
    IF b.ok THEN Ok(BigToString(b.val, 10)) ELSE b)

\* hex.toLowerCase().replace(/^(0x)0+/, '$1')
RECURSIVE SkipZeroChars(_, _)
SkipZeroChars(s, i) ==
  IF i <= Len(s) /\ s[i] = "0" THEN SkipZeroChars(s, i + 1) ELSE i

cleanHex(hex) ==
  LET lower == toLowerCase(hex)
  IN  IF Len(lower) >= 3 /\ lower[1] = "0" /\ lower[2] = "x" /\ lower[3] = "0"
      THEN Ok(<<"0", "x">> \o SubSeq(lower, SkipZeroChars(lower, 3), Len(lower)))
      ELSE Ok(lower)

\* utils/assert: throws an Error with the message when the condition is false
assert(condition, message) ==
  IF condition THEN Ok(<<>>) ELSE Throw("RangeError", message)

\* assertInRange with the upper bound excluded (input < upperBound)
assertInRangeExclusive(input, lowerBound, upperBound, inputName) ==
  LET messageSuffix ==
        IF inputName = <<>>
        THEN <<"i","n","v","a","l","i","d"," ","l","e","n","g","t","h">>
        ELSE <<"i","n","v","a","l","i","d"," ">> \o inputName \o <<" ","l","e","n","g","t","h">>
      inputBigInt == BigInt(input)
      lowerBoundBigInt == BigInt(lowerBound)
      upperBoundBigInt == BigInt(upperBound)
  IN  IF ~inputBigInt.ok THEN inputBigInt
      ELSE IF ~lowerBoundBigInt.ok THEN lowerBoundBigInt
      ELSE IF ~upperBoundBigInt.ok THEN upperBoundBigInt
      ELSE assert(BigGeq(inputBigInt.val, lowerBoundBigInt.val)
                    /\ ~BigGeq(inputBigInt.val, upperBoundBigInt.val),
                  <<"M","e","s","s","a","g","e"," ","n","o","t"," ",
                    "s","i","g","n","a","b","l","e",","," ">>
                    \o messageSuffix \o <<".">>)

assertInRange(input, lowerBound, upperBound, inputName) ==
  LET messageSuffix ==
        IF inputName = <<>>
        THEN <<"i","n","v","a","l","i","d"," ","l","e","n","g","t","h">>
        ELSE <<"i","n","v","a","l","i","d"," ">> \o inputName \o <<" ","l","e","n","g","t","h">>
      inputBigInt == BigInt(input)
      lowerBoundBigInt == BigInt(lowerBound)
      upperBoundBigInt == BigInt(upperBound)
  IN  IF ~inputBigInt.ok THEN inputBigInt
      ELSE IF ~lowerBoundBigInt.ok THEN lowerBoundBigInt
      ELSE IF ~upperBoundBigInt.ok THEN upperBoundBigInt
      ELSE assert(BigGeq(inputBigInt.val, lowerBoundBigInt.val)
                    /\ BigLeq(inputBigInt.val, upperBoundBigInt.val),
                  <<"M","e","s","s","a","g","e"," ","n","o","t"," ",
                    "s","i","g","n","a","b","l","e",","," ">>
                    \o messageSuffix \o <<".">>)

\* /^\d+$/.test(str)
isStringWholeNumber(str) ==
  /\ Len(str) >= 1
  /\ \A k \in 1..Len(str) : IsDecChar(str[k])

getDecimalString(str) ==
  IF isHex(str) THEN hexToDecimalString(str)
  ELSE IF isStringWholeNumber(str) THEN Ok(str)
  ELSE Throw("FormatError",
             str \o <<" ","n","e","e","d","s"," ","t","o"," ","b","e"," ","a"," ",
                      "h","e","x","-","s","t","r","i","n","g"," ","o","r"," ",
                      "w","h","o","l","e","-","n","u","m","b","e","r","-",
                      "s","t","r","i","n","g">>)

\* hexToBytes of @noble/curves/abstract/utils: an even number of hex digits,
\* two per byte, most significant first
hexToBytesNoble(hex) ==
  Strict(hex, LAMBDA h :
    IF Len(h) % 2 # 0 THEN Throw("Error", <<>>)
    ELSE IF \E k \in 1..Len(h) : ~IsHexChar(h[k]) THEN Throw("Error", <<>>)
    ELSE Ok([i \in 1..(Len(h) \div 2) |->
               DigitValue(h[2 * i - 1]) * 16 + DigitValue(h[2 * i])]))

\* hexToBytes padding an odd number of digits on the right
hexToBytesPadRight(str) ==
  IF ~isHex(str)
  THEN Throw("FormatError",
             str \o <<" ","n","e","e","d","s"," ","t","o"," ","b","e"," ","a"," ",
                      "h","e","x","-","s","t","r","i","n","g">>)
  ELSE Strict(removeHexPrefix(str), LAMBDA stripped :
         hexToBytesNoble(IF Len(stripped) % 2 # 0 THEN stripped \o <<"0">> ELSE stripped))

hexToBytes(str) ==
  IF ~isHex(str)
  THEN Throw("FormatError",
             str \o <<" ","n","e","e","d","s"," ","t","o"," ","b","e"," ","a"," ",
                      "h","e","x","-","s","t","r","i","n","g">>)
  ELSE Strict(removeHexPrefix(str), LAMBDA stripped :
         hexToBytesNoble(IF Len(stripped) % 2 # 0 THEN <<"0">> \o stripped ELSE stripped))

\* a / d rounded toward minus infinity
BigDivFloor(a, d) ==
  Strict(MagDivMod(a.mag, d), LAMBDA dm :
    IF a.neg /\ dm.r # 0 THEN MkBig(TRUE, MagAdd(dm.q, <<1>>)) ELSE MkBig(a.neg, dm.q))

\* addPercent with the floor division
addPercentFloor(number, percent) ==
  Strict(BigInt(number), LAMBDA bigIntNum :
    IF bigIntNum.ok
    THEN Ok(BigAdd(bigIntNum.val,
                   BigDivFloor(BigMul(bigIntNum.val, BigFromNumber(percent)), 100)))
    ELSE bigIntNum)

addPercent(number, percent) ==
  Strict(BigInt(number), LAMBDA bigIntNum :
    IF bigIntNum.ok
    THEN Ok(BigAdd(bigIntNum.val,
                   BigDiv(BigMul(bigIntNum.val, BigFromNumber(percent)), 100)))
    ELSE bigIntNum)

isNumber(value) == value.tag = "number"

isBigInt(value) == value.tag = "bigint"

isBigNumberish(input) ==
  \/ isNumber(input)
  \/ isBigInt(input)
  \/ (input.tag = "string" /\ (isHex(input.v) \/ isStringWholeNumber(input.v)))

\* constants: MASK_31 = 2n ** 31n - 1n
MASK_31 == MkBig(FALSE, <<7, 15, 15, 15, 15, 15, 15, 15>>)

\* x & y for two hex digits
DigitAnd(x, y) ==
  ((x % 2) * (y % 2))
  + 2 * (((x \div 2) % 2) * ((y \div 2) % 2))
  + 4 * (((x \div 4) % 2) * ((y \div 4) % 2))
  + 8 * ((x \div 8) * (y \div 8))

\* a & b for non-negative bigints
BigAnd(x, y) ==
  Strict(<<x.mag, y.mag>>, LAMBDA m :
    LET n == IF Len(m[1]) < Len(m[2]) THEN Len(m[1]) ELSE Len(m[2])
    IN  MkBig(FALSE, StripZeros([i \in 1..n |->
          DigitAnd(DigitFromRight(m[1], n - i), DigitFromRight(m[2], n - i))])))

\* Number(b) for a bigint that a machine integer holds exactly
RECURSIVE MagToNumberAcc(_, _, _)
MagToNumberAcc(m, i, acc) ==
  IF i > Len(m) THEN acc ELSE MagToNumberAcc(m, i + 1, acc * 16 + m[i])

BigToNumber(b) == (IF b.neg THEN -1 ELSE 1) * MagToNumberAcc(b.mag, 1, 0)

\* stringToSha256ToArrayBuff4(str), given the 32 bytes sha256(str)
int31(n) == BigToNumber(BigAnd(n, MASK_31))

stringToSha256ToArrayBuff4(digest) ==
  Strict(int31(BigInt(Str(addHexPrefix(buf2hex(digest)))).val), LAMBDA result :
    hexToBytes(toHex(Num(result)).val))

(***************************************************************************)
(* The inputs.  A call takes a BigNumberish value, a string, the four      *)
(* arguments of assertInRange, the two of addPercent, or (for              *)
(* stringToSha256ToArrayBuff4) a string, of which the model keeps the      *)
(* 32 bytes that sha256 makes of it.                                       *)
(***************************************************************************)
SeqsUpTo(S, n) == UNION {[1..k -> S] : k \in 0..n}

Repeat(c, n) == [i \in 1..n |-> c]

Alphabet == {"0", "1", "b", "F", "x", "X", "-", " "}
HexAlphabet == {"0", "1", "a", "F"}
DecAlphabet == {"0", "1", "9"}

AnyStrings == SeqsUpTo(Alphabet, MaxLen)

HexStrings == {<<"0", "x">> \o d : d \in SeqsUpTo(HexAlphabet, MaxHexDigits)}

DecStrings == SeqsUpTo(DecAlphabet, MaxDecDigits) \ {<<>>}

\* the strings of the examples in the source's comments
SampleStrings ==
  {<<"0","x","6","4">>, <<"0","x","1","a">>, <<"0","x","0","0","0","2","3","A","B">>, <<"1","0","0">>, <<"2","0","0">>, <<"1","2","3">>, <<"6","4">>, <<"c","8">>,
   <<"H","e","l","l","o">>, <<"t","e","s","t">>, <<"1","0",".","0">>, <<"Z","E","R","O">>, <<"0","x","e","a">>, <<"2","3","4">>}

ShortStrings == AnyStrings \cup HexStrings \cup DecStrings \cup SampleStrings

\* hex strings around 2^256: 2^256 - 1, 2^256, 2^252 - 1, 2^255, and 2^256 - 1
\* written with upper case digits and with leading zeros
LongStrings ==
  {<<"0", "x">> \o Repeat("f", PadWidth),
   <<"0", "x", "1">> \o Repeat("0", PadWidth),
   <<"0", "x">> \o Repeat("f", PadWidth - 1),
   <<"0", "x", "8">> \o Repeat("0", PadWidth - 1),
   <<"0", "X">> \o Repeat("F", PadWidth),
   <<"0", "x", "0", "0", "0">> \o Repeat("f", PadWidth)}

Numbers ==
  (-MaxNum .. MaxNum)
    \cup {100, 200, 234, 255, 256, 4095, 4096, 65536, 2147483647,
          -100, -200, -255, -256, -4096}

BigInts ==
  {BigFromNumber(n) : n \in {-256, -16, -1, 0, 1, 10, 15, 16, 200, 255, 256}}
    \cup {MkBig(FALSE, Repeat(15, PadWidth)),
          MkBig(FALSE, <<1>> \o Repeat(0, PadWidth)),
          MkBig(FALSE, Repeat(15, PadWidth - 1)),
          MkBig(TRUE, Repeat(15, PadWidth))}

ValueArg(v) == [kind |-> "value", value |-> v]
StringArg(s) == [kind |-> "string", str |-> s]
RangeArg(v, lo, hi, name) ==
  [kind |-> "range", input |-> v, lowerBound |-> lo, upperBound |-> hi, inputName |-> name]
PercentArg(n, p) == [kind |-> "percent", number |-> n, percent |-> p]
DigestArg(d) == [kind |-> "digest", digest |-> d]

RangeNumbers == (-1 .. MaxRange) \cup {5, 10, 20, 25}

RangeStrings == {<<"0","x","1","4">>, <<"2","5">>, <<"0","x">>, <<"t","e","n">>}

Labels == {<<>>, <<"v","a","l","u","e">>, <<"x">>}

PercentNumbers ==
  (-MaxNum .. MaxNum) \cup {100, 200, 250, 999, 1000000, -100, -200, -250, -999}

PercentStrings == {<<"1","0","0">>, <<"0","x","6","4">>, <<"0","x">>, <<"-","7">>}

Percents == (-MaxPct .. MaxPct) \cup {33, 50, 100, 150, -33, -50, -100, -150}

\* sha256('LedgerW') and sha256('path57')
DigestLedgerW ==
  <<138,203,207,81,59,223,6,27,202,137,90,64,149,29,18,251,
    95,84,146,250,223,112,192,11,206,24,248,46,171,206,231,219>>

DigestPath57 ==
  <<174,190,255,57,24,115,181,1,187,75,172,251,178,172,226,27,
    34,1,19,159,176,240,216,108,64,229,154,65,0,225,238,73>>

DigestBytes == {0, 1, 127, 128, 255}

\* digests that differ in their last four bytes, under three fillings of the
\* other twenty-eight
Digests ==
  {Repeat(f, 28) \o tail : f \in {0, 171, 255}, tail \in [1..4 -> DigestBytes]}
    \cup {DigestLedgerW, DigestPath57}

\* nothing returned yet
NoReturn == [ok |-> FALSE, val |-> <<>>, err |-> "none", msg |-> <<>>]

NoCall == [op |-> "none", ret |-> NoReturn]

Init ==
  /\ op = "none"
  /\ ret = NoReturn
  /\ prev = NoCall
  /\ \/ \E n \in Numbers : arg = ValueArg(Num(n))
     \/ \E b \in BigInts : arg = ValueArg(Big(b))
     \/ \E s \in ShortStrings \cup LongStrings : arg = ValueArg(Str(s))
     \/ arg = ValueArg(Bool(TRUE))
     \/ \E s \in ShortStrings : arg = StringArg(s)
     \/ \E n \in RangeNumbers, lo \in RangeNumbers, hi \in RangeNumbers, name \in Labels :
          arg = RangeArg(Num(n), Num(lo), Num(hi), name)
     \/ \E s \in RangeStrings, lo \in RangeNumbers, hi \in RangeNumbers, name \in Labels :
          arg = RangeArg(Str(s), Num(lo), Num(hi), name)
     \/ \E n \in PercentNumbers, p \in Percents : arg = PercentArg(Num(n), p)
     \/ \E s \in PercentStrings, p \in Percents : arg = PercentArg(Str(s), p)
     \/ \E d \in Digests : arg = DigestArg(d)

(***************************************************************************)
(* The calls.  prev is the call whose result the present call was given:   *)
(* hexToDecimalString may be given the result of toHex, and toBigInt may   *)
(* follow isBigNumberish on the same value.                                *)
(***************************************************************************)
Call(name, result, from) ==
  /\ op' = name
  /\ ret' = result
  /\ prev' = from
  /\ UNCHANGED arg

\* what a call returns, with the type of the value returned
Returns(type, result) ==
  IF result.ok THEN Ok(<<type, result.val>>) ELSE result

\* the value that a successful call returned
Value(r) == r.val[2]

ThisCall == [op |-> op, ret |-> ret]

IsBigNumberishCall ==
  /\ arg.kind = "value"
  /\ Call("isBigNumberish", Returns("boolean", Ok(isBigNumberish(arg.value))), NoCall)

ToBigIntCall ==
  /\ arg.kind = "value"
  /\ arg.value.tag # "boolean"
  /\ Call("toBigInt", Returns("bigint", toBigInt(arg.value)),
          IF op = "isBigNumberish" THEN ThisCall ELSE NoCall)

ToHexCall ==
  /\ arg.kind = "value"
  /\ arg.value.tag # "boolean"
  /\ Call("toHex", Returns("string", toHex(arg.value)), NoCall)

ToStorageKeyCall ==
  /\ arg.kind = "value"
  /\ arg.value.tag # "boolean"
  /\ Call("toStorageKey", Returns("string", toStorageKey(arg.value)), NoCall)

HexToDecimalStringCall ==
  \/ /\ arg.kind = "string"
     /\ Call("hexToDecimalString", Returns("string", hexToDecimalString(arg.str)), NoCall)
  \/ /\ op = "toHex"
     /\ ret.ok
     /\ Call("hexToDecimalString", Returns("string", hexToDecimalString(Value(ret))), ThisCall)

CleanHexCall ==
  /\ arg.kind = "string"
  /\ Call("cleanHex", Returns("string", cleanHex(arg.str)), NoCall)

GetDecimalStringCall ==
  /\ arg.kind = "string"
  /\ Call("getDecimalString", Returns("string", getDecimalString(arg.str)), NoCall)

HexToBytesCall ==
  /\ arg.kind = "string"
  /\ Call("hexToBytes", Returns("Uint8Array", hexToBytes(arg.str)), NoCall)

AssertInRangeCall ==
  /\ arg.kind = "range"
  /\ Call("assertInRange",
          Returns("undefined",
                  assertInRange(arg.input, arg.lowerBound, arg.upperBound, arg.inputName)),
          NoCall)

AddPercentCall ==
  /\ arg.kind = "percent"
  /\ Call("addPercent", Returns("bigint", addPercent(arg.number, arg.percent)), NoCall)

StringToSha256ToArrayBuff4Call ==
  /\ arg.kind = "digest"
  /\ Call("stringToSha256ToArrayBuff4",
          Returns("Uint8Array", stringToSha256ToArrayBuff4(arg.digest)), NoCall)

Next ==
  \/ IsBigNumberishCall
  \/ ToBigIntCall
  \/ ToHexCall
  \/ ToStorageKeyCall
  \/ HexToDecimalStringCall
  \/ CleanHexCall
  \/ GetDecimalStringCall
  \/ HexToBytesCall
  \/ AssertInRangeCall
  \/ AddPercentCall
  \/ StringToSha256ToArrayBuff4Call

Spec == Init /\ [][Next]_vars

(***************************************************************************)
(* What the properties are stated with.                                    *)
(***************************************************************************)
\* s matches ^0x[0-9a-f]*$ without regard to case
HexPattern(s) ==
  /\ Len(s) >= 2
  /\ s[1] = "0"
  /\ s[2] \in {"x", "X"}
  /\ \A k \in 3..Len(s) : s[k] \in HexChars

\* s matches ^\d+$
WholePattern(s) == Len(s) >= 1 /\ \A k \in 1..Len(s) : s[k] \in DecChars

NibbleOf ==
  [c \in HexChars |->
     CASE c = "0" -> 0 [] c = "1" -> 1 [] c = "2" -> 2 [] c = "3" -> 3
       [] c = "4" -> 4 [] c = "5" -> 5 [] c = "6" -> 6 [] c = "7" -> 7
       [] c = "8" -> 8 [] c = "9" -> 9
       [] c \in {"a", "A"} -> 10 [] c \in {"b", "B"} -> 11 [] c \in {"c", "C"} -> 12
       [] c \in {"d", "D"} -> 13 [] c \in {"e", "E"} -> 14 [] c \in {"f", "F"} -> 15]

\* the integer that the hex digits of s after its first two characters denote,
\* as a magnitude (no digit denotes zero)
Denoted(s) == StripZeros([k \in 1..(Len(s) - 2) |-> NibbleOf[s[k + 2]]])

\* s is "0x" and then lowercase hex digits only, at least one
LowerHexString(s) ==
  /\ Len(s) >= 3
  /\ s[1] = "0"
  /\ s[2] = "x"
  /\ \A k \in 3..Len(s) : s[k] \in {HexLower[i] : i \in 1..16}

\* canonical: no leading zero digit but the single digit of zero
CanonicalHex(s) == LowerHexString(s) /\ (s[3] # "0" \/ Len(s) = 3)

\* the value is numeric-like: a number, a bigint, a string of decimal digits or
\* a hex string with the 0x prefix
NumericLike(v) ==
  \/ v.tag \in {"number", "bigint"}
  \/ v.tag = "string" /\ (WholePattern(v.v) \/ (HexPattern(v.v) /\ Len(v.v) >= 3))

\* the big-endian value of bytes, as a magnitude
BytesValue(bytes) ==
  StripZeros([i \in 1..(2 * Len(bytes)) |->
                IF i % 2 = 1 THEN bytes[(i + 1) \div 2] \div 16 ELSE bytes[i \div 2] % 16])

\* the decimal digits d without their leading zeros, "0" when all are zero
NormalDecimal(d) ==
  LET nz == {i \in 1..Len(d) : d[i] # "0"}
  IN  IF nz = {} THEN <<"0">>
      ELSE SubSeq(d, CHOOSE i \in nz : \A j \in nz : i <= j, Len(d))

\* sub occurs in s
Contains(s, sub) ==
  \E i \in 1..(Len(s) - Len(sub) + 1) : SubSeq(s, i, i + Len(sub) - 1) = sub

\* the integer of a value whose conversion succeeds and fits a machine integer
IntOf(v) == IF v.tag = "number" THEN v.v ELSE BigToNumber(BigInt(v).val)

\* n / d truncated toward zero
TruncDiv(n, d) == IF n < 0 THEN -((-n) \div d) ELSE n \div d

(***************************************************************************)
(* C1: for every numeric-like input, negative integers included, toHex     *)
(* returns a canonical hex string ("0x", lowercase hex digits, no leading  *)
(* zero but the digit of zero) that denotes the integer of toBigInt.       *)
(* The code returns "0x-5" for -5.                                         *)
(***************************************************************************)
C1_ToHexCanonical ==
  (op = "toHex" /\ NumericLike(arg.value))
    => /\ ret.ok
       /\ CanonicalHex(Value(ret))
       /\ toBigInt(arg.value).ok
       /\ toBigInt(arg.value).val = MkBig(FALSE, Denoted(Value(ret)))

(***************************************************************************)
(* C2: for 0 <= n < 2^256, in any representation that toBigInt converts,   *)
(* toStorageKey returns 66 characters: "0x" and 64 hex digits, zeros on    *)
(* the left, whose value is n.                                             *)
(***************************************************************************)
InStorageRange(v) ==
  /\ v.tag # "boolean"
  /\ toBigInt(v).ok
  /\ ~toBigInt(v).val.neg
  /\ Len(toBigInt(v).val.mag) <= 64

DecimalArg == arg.kind = "value" /\ arg.value.tag = "string" /\ WholePattern(arg.value.v)

C3_RoundTrip ==
  /\ (op = "toHex" /\ DecimalArg) => ret.ok
  /\ (op = "hexToDecimalString" /\ prev.op = "toHex" /\ DecimalArg)
       => (ret.ok /\ Value(ret) = NormalDecimal(arg.value.v))

\* reached: the round trip of a decimal string with a leading zero, of a value
\* of two decimal digits at least
C3_Witness ==
  /\ op = "hexToDecimalString"
  /\ prev.op = "toHex"
  /\ DecimalArg
  /\ arg.value.v[1] = "0"
  /\ ret.ok
  /\ Len(Value(ret)) >= 2
  /\ Value(ret) # arg.value.v

(***************************************************************************)
(* C4: addPercent(b, p) = b + q, q being b * p / 100 rounded toward zero,  *)
(* for b and p of either sign.                                             *)
(***************************************************************************)
C4_AddPercentTruncates ==
  (op = "addPercent" /\ BigInt(arg.number).ok)
    => /\ ret.ok
       /\ Value(ret) = BigFromNumber(IntOf(arg.number)
                      + TruncDiv(IntOf(arg.number) * arg.percent, 100))

\* reached: a negative product that 100 does not divide, where truncation and
\* floor differ
C4_Witness ==
  /\ op = "addPercent"
  /\ BigInt(arg.number).ok
  /\ IntOf(arg.number) * arg.percent < 0
  /\ (IntOf(arg.number) * arg.percent) % 100 # 0
  /\ ret.ok

(***************************************************************************)
(* C5: assertInRange fails with a range error exactly when value < lower   *)
(* or value > upper (both bounds inclusive); the message of the error      *)
(* contains the label when one is given, "invalid length" otherwise.       *)
(***************************************************************************)
RangeArgsConvert ==
  BigInt(arg.input).ok /\ BigInt(arg.lowerBound).ok /\ BigInt(arg.upperBound).ok

C6_GetDecimalString ==
  op = "getDecimalString"
    => /\ (ret.err = "FormatError") <=> ~(HexPattern(arg.str) \/ WholePattern(arg.str))
       /\ HexPattern(arg.str)
            => /\ ret.ok
               /\ WholePattern(Value(ret))
               /\ StringToBigInt(Value(ret)).val = MkBig(FALSE, Denoted(arg.str))
       /\ (~HexPattern(arg.str) /\ WholePattern(arg.str))
            => (ret.ok /\ Value(ret) = arg.str)

(***************************************************************************)
(* C7: for a string that matches the hex pattern, with k digits,           *)
(* hexToBytes returns ceil(k / 2) bytes whose big-endian value is the      *)
(* integer of the string (an odd k is padded with a zero on the left);     *)
(* for any other string it fails with a FormatError.                       *)
(***************************************************************************)
C7_HexToBytes ==
  op = "hexToBytes"
    => IF HexPattern(arg.str)
       THEN /\ ret.ok
            /\ Len(Value(ret)) = (Len(arg.str) - 2 + 1) \div 2
            /\ \A i \in 1..Len(Value(ret)) : Value(ret)[i] \in 0..255
            /\ BytesValue(Value(ret)) = Denoted(arg.str)
       ELSE ret.err = "FormatError"

\* reached: a hex string with an odd number of digits, three at least
C7_Witness ==
  /\ op = "hexToBytes"
  /\ HexPattern(arg.str)
  /\ Len(arg.str) % 2 = 1
  /\ Len(arg.str) >= 5
  /\ arg.str[3] # "0"
  /\ ret.ok
  /\ Len(Value(ret)) = (Len(arg.str) - 1) \div 2

(***************************************************************************)
(* C8: for a string that matches the hex pattern, cleanHex is the string   *)
(* in lower case without the leading zeros after the prefix, but with the  *)
(* one digit that zero needs ("0x000" gives "0x0"), so that the result     *)
(* denotes the same integer.  The code returns "0x" for "0x0".             *)
(***************************************************************************)
CleanedHex(x) ==
  LET lower == toLowerCase(x)
      nz == {i \in 3..Len(x) : x[i] # "0"}
  IN  IF Len(x) = 2 THEN lower
      ELSE IF nz = {} THEN <<"0", "x", "0">>
      ELSE <<"0", "x">> \o SubSeq(lower, CHOOSE i \in nz : \A j \in nz : i <= j, Len(x))

C8_CleanHexKeepsDigit ==
  (op = "cleanHex" /\ HexPattern(arg.str))
    => /\ ret.ok
       /\ Value(ret) = CleanedHex(arg.str)
       /\ Denoted(Value(ret)) = Denoted(arg.str)

(***************************************************************************)
(* C9: stringToSha256ToArrayBuff4 returns exactly 4 bytes, whose           *)
(* big-endian value is the digest masked to its low 31 bits.  The code     *)
(* returns fewer bytes when the masked value is below 2^24.                *)
(***************************************************************************)
\* the low 31 bits of the digest, as a magnitude
Low31(digest) ==
  StripZeros(<<(digest[29] \div 16) % 8, digest[29] % 16,
               digest[30] \div 16, digest[30] % 16,
               digest[31] \div 16, digest[31] % 16,
               digest[32] \div 16, digest[32] % 16>>)

C9_FourBytes ==
  op = "stringToSha256ToArrayBuff4"
    => /\ ret.ok
       /\ Len(Value(ret)) = 4
       /\ BytesValue(Value(ret)) = Low31(arg.digest)

(***************************************************************************)
(* C10: on strings isBigNumberish and toBigInt agree: isBigNumberish(s)    *)
(* is true if and only if toBigInt(s) succeeds; the bare "0x" included.    *)
(* The code accepts "0x" and then throws on it.                            *)
(***************************************************************************)
C10_PredicateAgreesWithConverter ==
  (op = "toBigInt" /\ prev.op = "isBigNumberish" /\ arg.value.tag = "string")
    => (Value(prev.ret) <=> ret.ok)

=============================================================================
